---------------------------- MODULE Spec2Model ----------------------------
(***************************************************************************)
(* Model of the long-term memory store                                     *)
(* (src/task/tools/memory/memory_store.py, class LongTermMemoryStore).     *)
(*                                                                         *)
(* Time is counted in hours.  Importance is counted in tenths (6 = 0.6).   *)
(* Embeddings are integer vectors; cosine similarity is compared exactly,  *)
(* by cross-multiplication, so no square root is needed.                   *)
(* Sequences are 1-based: position 1 of a neighbour list is the code's     *)
(* position 0, record 1 of a collection is the code's index 0.             *)
(***************************************************************************)
EXTENDS Integers, Sequences, FiniteSets, TLC

(***************************************************************************)
(* Program constants                                                       *)
(***************************************************************************)
DEDUP_INTERVAL_HOURS == 24

\* SIMILARITY_THRESHOLD = 0.75, as a percentage
SIMILARITY_THRESHOLD == 75

MIN_MEMORIES_FOR_DEDUP == 10

\* the literal 10 of k = min(10, len(memories)) in _deduplicate_fast
DEDUP_NEIGHBORS == 10

SECONDS_PER_HOUR == 3600

\* None: an unset timestamp, an absent cache entry, an unbound local
NONE == -1

(***************************************************************************)
(* Bounds of the model                                                     *)
(***************************************************************************)
\* longest exhaustively enumerated input of the deduplication pass
MaxLen == 3

\* operations started in one run
MaxOps == 2

\* injected failures (bucket lookup, download, upload, delete, embedding)
MaxFaults == 1

\* the hour at which a run starts, and the hours the clock advances in one
\* step
InitNow == 48

TimeStep == 12

\* the clock steps of one run
MaxTicks == 1

(***************************************************************************)
(* Record model (spec section 3; task/tools/memory/_models.py)             *)
(***************************************************************************)
Contents == {"A", "B", "C", "D"}

Importances == {6, 9}

\* The embedding model: a deterministic map from text to a vector.
\* cos(A,B) = cos(B,C) = 0.949, cos(A,C) = 0.8, cos(C,D) = 0.6,
\* cos(B,D) = 0.316, cos(A,D) = 0.
Embed(content) ==
    CASE content = "A" -> <<1, 0>>
      [] content = "B" -> <<3, 1>>
      [] content = "C" -> <<4, 3>>
      [] content = "D" -> <<0, 1>>
      [] OTHER -> <<1, 1>>

Memory(id, content, importance) ==
    [id |-> id, content |-> content, importance |-> importance,
     embedding |-> Embed(content)]

\* MemoryData: a record without its embedding
Data(m) == [id |-> m.id, content |-> m.content, importance |-> m.importance]

Min(a, b) == IF a <= b THEN a ELSE b

Repeat(m, n) == [i \in 1..n |-> m]

(***************************************************************************)
(* Vector index: faiss.normalize_L2 + IndexFlatIP                          *)
(***************************************************************************)
Dot(a, b) == a[1] * b[1] + a[2] * b[2]

Norm2(a) == Dot(a, a)

\* cos(a, b) >= pct / 100, the rows being normalised to unit length
CosAtLeast(a, b, pct) ==
    /\ Dot(a, b) >= 0
    /\ 10000 * Dot(a, b) * Dot(a, b) >= pct * pct * Norm2(a) * Norm2(b)

\* cos(q, x) > cos(q, y)
CosGreater(q, x, y) ==
    LET dx == Dot(q, x)
        dy == Dot(q, y)
        lx == dx * dx * Norm2(y)
        ly == dy * dy * Norm2(x)
    IN  IF dx >= 0 /\ dy < 0 THEN TRUE
        ELSE IF dx < 0 /\ dy >= 0 THEN FALSE
        ELSE IF dx >= 0 THEN lx > ly
        ELSE lx < ly

\* How the index orders rows of equal score.  "stable": by ascending row
\* number (spec section 4.2).  "heap": faiss keeps its k best rows in a
\* binary heap ordered by (score, row), which admits a row only when its
\* score is strictly better than the worst kept one and is emptied worst
\* first: of equal scores the lowest rows are kept, and they come out by
\* descending row number.
TieOrders == {"stable", "heap"}

\* row x comes before row y in the result for query vector q; rows of equal
\* score by ascending row number, or by descending row number
Before(embs, q, x, y, ascending) ==
    \/ CosGreater(q, embs[x], embs[y])
    \/ /\ ~CosGreater(q, embs[y], embs[x])
       /\ IF ascending THEN x < y ELSE x > y

RECURSIVE InsertRow(_, _, _, _, _)
InsertRow(embs, q, ascending, list, x) ==
    IF list = <<>> THEN <<x>>
    ELSE IF Before(embs, q, x, Head(list), ascending) THEN <<x>> \o list
    ELSE <<Head(list)>> \o InsertRow(embs, q, ascending, Tail(list), x)

RECURSIVE SortRows(_, _, _, _, _)
\* the rows rows[i..] sorted best first
SortRows(embs, q, ascending, rows, i) ==
    IF i > Len(rows) THEN <<>>
    ELSE InsertRow(embs, q, ascending,
                   SortRows(embs, q, ascending, rows, i + 1), rows[i])

\* index.search(q, k): the k rows of highest inner product, best first
IndexSearch(embs, q, k, tie) ==
    LET all == [i \in 1..Len(embs) |-> i]
        kept == SubSeq(SortRows(embs, q, TRUE, all, 1), 1, k)
    IN  IF tie = "stable" THEN kept
        ELSE SortRows(embs, q, FALSE, kept, 1)

Embeddings(memories) == [i \in 1..Len(memories) |-> memories[i].embedding]

(***************************************************************************)
(* _deduplicate_fast                                                       *)
(***************************************************************************)
RECURSIVE ScanNeighbors_AnyScore(_, _, _, _, _, _)
\* variant: the similarity of a neighbour is not tested
ScanNeighbors_AnyScore(memories, nbr, k, i, pos, to_remove) ==
    IF pos > k THEN to_remove
    ELSE LET j == nbr[pos]
         IN  IF j \in to_remove
             THEN ScanNeighbors_AnyScore(memories, nbr, k, i, pos + 1,
                                         to_remove)
             ELSE IF memories[i].importance >= memories[j].importance
             THEN ScanNeighbors_AnyScore(memories, nbr, k, i, pos + 1,
                                         to_remove \cup {j})
             ELSE to_remove \cup {i}

RECURSIVE ScanNeighbors(_, _, _, _, _, _)
\* the inner loop "for j_pos in range(1, k)" for record i, from position
\* pos of its neighbour list nbr = indices[i]
ScanNeighbors(memories, nbr, k, i, pos, to_remove) ==
    IF pos > k THEN to_remove
    ELSE LET j == nbr[pos]
         IN  IF \/ ~CosAtLeast(memories[i].embedding, memories[j].embedding,
                               SIMILARITY_THRESHOLD)
                \/ j \in to_remove
             THEN ScanNeighbors(memories, nbr, k, i, pos + 1, to_remove)
             ELSE IF memories[i].importance >= memories[j].importance
             THEN ScanNeighbors(memories, nbr, k, i, pos + 1,
                                to_remove \cup {j})
             ELSE to_remove \cup {i}

RECURSIVE ScanRecords(_, _, _, _, _)
\* the outer loop "for i in range(len(memories))"
ScanRecords(memories, k, tie, i, to_remove) ==
    IF i > Len(memories) THEN to_remove
    ELSE IF i \in to_remove
    THEN ScanRecords(memories, k, tie, i + 1, to_remove)
    ELSE LET embs == Embeddings(memories)
             nbr == IndexSearch(embs, embs[i], k, tie)
         IN  ScanRecords(memories, k, tie, i + 1,
                         ScanNeighbors(memories, nbr, k, i, 2, to_remove))

RECURSIVE Keep_Backwards(_, _, _)
\* variant: the kept records are collected last first
Keep_Backwards(memories, to_remove, i) ==
    IF i > Len(memories) THEN <<>>
    ELSE IF i \in to_remove THEN Keep_Backwards(memories, to_remove, i + 1)
    ELSE Keep_Backwards(memories, to_remove, i + 1) \o <<memories[i]>>

RECURSIVE Keep(_, _, _)
\* [m for idx, m in enumerate(memories) if idx not in to_remove], from i on
Keep(memories, to_remove, i) ==
    IF i > Len(memories) THEN <<>>
    ELSE IF i \in to_remove THEN Keep(memories, to_remove, i + 1)
    ELSE <<memories[i]>> \o Keep(memories, to_remove, i + 1)

\* variant: a fan-out of 2 (the record and one neighbour)
NeighborCount_Two(n) == Min(2, n)

\* k = min(10, len(memories))
NeighborCount(n) == Min(DEDUP_NEIGHBORS, n)

\* the set to_remove at the end of the pass
ToRemove(memories, tie) ==
    IF Len(memories) <= 1 THEN {}
    ELSE ScanRecords(memories, NeighborCount(Len(memories)), tie, 1, {})

DeduplicateFast(memories, tie) ==
    IF Len(memories) <= 1 THEN memories
    ELSE Keep(memories, ToRemove(memories, tie), 1)


(***************************************************************************)
(* search_memories, lines 200-219: rank the collection against the query   *)
(***************************************************************************)
\* k = min(top_k, len(collection.memories))
SearchK(top_k, n) == Min(top_k, n)

\* [collection.memories[i].data for i in indices[0]]
RankMemories(memories, query, top_k, tie) ==
    LET found == IndexSearch(Embeddings(memories), Embed(query),
                             SearchK(top_k, Len(memories)), tie)
    IN  [p \in 1..Len(found) |-> Data(memories[found[p]])]

(***************************************************************************)
(* _needs_deduplication                                                    *)
(***************************************************************************)
\* variant: the interval test is not strict
NeedsDeduplication_AtInterval(collection, time) ==
    IF Len(collection.memories) <= MIN_MEMORIES_FOR_DEDUP THEN FALSE
    ELSE IF collection.last_deduplicated_at = NONE THEN TRUE
    ELSE time - collection.last_deduplicated_at >= DEDUP_INTERVAL_HOURS

NeedsDeduplication(collection, time) ==
    IF Len(collection.memories) <= MIN_MEMORIES_FOR_DEDUP THEN FALSE
    ELSE IF collection.last_deduplicated_at = NONE THEN TRUE
    ELSE time - collection.last_deduplicated_at > DEDUP_INTERVAL_HOURS

(***************************************************************************)
(* Storage paths, documents and collection objects                         *)
(***************************************************************************)
ApiKeys == {"key1", "key2"}

\* variant: every key is given the same bucket
AppHomePath_Shared(api_key) == "bucket1"

\* dial_client.get_app_home_path(): the bucket of the key's user
AppHomePath(api_key) == IF api_key = "key1" THEN "bucket1" ELSE "bucket2"

\* _get_memory_file_path
MemoryFilePath(api_key) ==
    <<"files", AppHomePath(api_key), "__long-memories", "data.json">>

Paths == {MemoryFilePath(k) : k \in ApiKeys}

\* a stored object: absent, or the JSON document of a collection
AbsentDoc == [kind |-> "absent", memories |-> <<>>, updated_at |-> NONE,
              last_deduplicated_at |-> NONE]

\* a failed download (any exception of files.download)
FailedDoc == [AbsentDoc EXCEPT !.kind = "error"]

\* memories.model_dump_json()
DumpJson(collection) ==
    [kind |-> "json", memories |-> collection.memories,
     updated_at |-> collection.updated_at,
     last_deduplicated_at |-> collection.last_deduplicated_at]

\* a MemoryCollection object of the heap; live = FALSE: not allocated
FreeObj == [live |-> FALSE, memories |-> <<>>, updated_at |-> NONE,
            last_deduplicated_at |-> NONE]

\* MemoryCollection(memories=[], updated_at=datetime.now(UTC))
EmptyCollection(time) == [FreeObj EXCEPT !.live = TRUE, !.updated_at = time]

\* variant: the substituted collection is stamped as deduplicated
ValidateOrEmpty_Stamped(doc, time) ==
    IF doc.kind = "json"
    THEN [live |-> TRUE, memories |-> doc.memories,
          updated_at |-> doc.updated_at,
          last_deduplicated_at |-> doc.last_deduplicated_at]
    ELSE [EmptyCollection(time) EXCEPT !.last_deduplicated_at = time]

\* json.loads + MemoryCollection.model_validate, and the except branch of
\* _load_memories for a response that is not a document
ValidateOrEmpty(doc, time) ==
    IF doc.kind = "json"
    THEN [live |-> TRUE, memories |-> doc.memories,
          updated_at |-> doc.updated_at,
          last_deduplicated_at |-> doc.last_deduplicated_at]
    ELSE EmptyCollection(time)

Tasks == {1, 2}

ObjIds == 1..(Cardinality(Tasks) + Cardinality(Paths))

(***************************************************************************)
(* State                                                                   *)
(***************************************************************************)
VARIABLES
    now,        \* datetime.now(UTC), in hours
    tieOrder,   \* order of equal scores in the index results of this build
    storage,    \* DIAL file storage: path -> stored object
    cache,      \* self._cache: path -> collection object (NONE: no entry)
    heap,       \* the MemoryCollection objects, by identity
    tasks,      \* the coroutines: position, arguments and locals of each
    started,    \* operations started so far
    faults,     \* failures injected so far
    dd          \* the deduplication pass applied to a given list of records

vars == <<now, tieOrder, storage, cache, heap, tasks, started, faults, dd>>

svars == <<now, storage, cache, heap, tasks, started, faults>>

\* the pass has not been applied
DdIdle == [stage |-> 0, input |-> <<>>, removed |-> {}, out1 |-> <<>>,
           out2 |-> <<>>]

\* a coroutine before any call; caught is the exception that the operation
\* caught and did not raise again
IdleTask ==
    [pc |-> "idle", op |-> "none", key |-> "key1", content |-> "A",
     importance |-> 0, query |-> "A", top_k |-> 0, coll |-> NONE,
     msg |-> AbsentDoc, memory |-> Memory(0, "A", 0), deduped |-> FALSE,
     status |-> "none", error |-> "none", caught |-> "none",
     result |-> <<>>, seq |-> 0, solo |-> FALSE,
     startDoc |-> AbsentDoc, startView |-> FreeObj]

Path(t) == MemoryFilePath(tasks[t].key)

\* the collection a load of path p would return now: the cached object, or
\* else what is stored
LoadView(h, c, st, p) ==
    IF c[p] # NONE THEN h[c[p]] ELSE ValidateOrEmpty(st[p], NONE)

\* Python frees an object nothing refers to
Collect(h, c, ts) ==
    LET refs == {c[p] : p \in Paths} \cup {ts[t].coll : t \in Tasks}
    IN  [o \in ObjIds |-> IF o \in refs THEN h[o] ELSE FreeObj]

NewObj(h) ==
    CHOOSE o \in ObjIds :
        /\ ~h[o].live
        /\ \A o2 \in ObjIds : o2 < o => h[o2].live

Commit(h, c, ts) ==
    /\ tasks' = ts
    /\ cache' = c
    /\ heap' = Collect(h, c, ts)

\* the operation raises exception e
Failed(tk, e) ==
    [tk EXCEPT !.pc = "done", !.status = "error", !.error = e,
               !.result = <<>>, !.coll = NONE, !.msg = AbsentDoc]

\* the operation returns
Returned(tk, res) ==
    [tk EXCEPT !.pc = "done", !.status = "ok", !.result = res,
               !.coll = NONE, !.msg = AbsentDoc,
               !.startDoc = AbsentDoc, !.startView = FreeObj]

\* variant: the early return is never taken
IsEmptyCollection_Never(collection) == FALSE

\* if not collection.memories
IsEmptyCollection(collection) == collection.memories = <<>>

\* search_memories, lines 200-219, on collection object o.  An empty list
\* raises in the index construction (lines 201-207), before the query is
\* encoded.
Rank(t, h, c, o, embedOk) ==
    LET tk == tasks[t]
    IN  IF Len(h[o].memories) = 0
        THEN embedOk /\ Commit(h, c, [tasks EXCEPT ![t] =
                                         Failed(tk, "IndexError")])
        ELSE IF ~embedOk
        THEN Commit(h, c, [tasks EXCEPT ![t] = Failed(tk, "EncodeError")])
        ELSE Commit(h, c, [tasks EXCEPT ![t] =
                 Returned(tk, RankMemories(h[o].memories, tk.query,
                                           tk.top_k, tieOrder))])

\* variant: the record is built but not appended
AddAfterLoad_NoAppend(t, h, c, o, embedOk) ==
    LET tk == tasks[t]
        m == Memory(now * SECONDS_PER_HOUR, tk.content, tk.importance)
    IN  IF ~embedOk
        THEN Commit(h, c, [tasks EXCEPT ![t] = Failed(tk, "EncodeError")])
        ELSE Commit(h, c,
                    [tasks EXCEPT ![t].pc = "save_path", ![t].coll = o,
                                  ![t].memory = m, ![t].msg = AbsentDoc])

\* add_memory, lines 153-171, with the collection object o just loaded
AddAfterLoad(t, h, c, o, embedOk) ==
    LET tk == tasks[t]
        m == Memory(now * SECONDS_PER_HOUR, tk.content, tk.importance)
    IN  IF ~embedOk
        THEN Commit(h, c, [tasks EXCEPT ![t] = Failed(tk, "EncodeError")])
        ELSE Commit([h EXCEPT ![o].memories = Append(@, m)], c,
                    [tasks EXCEPT ![t].pc = "save_path", ![t].coll = o,
                                  ![t].memory = m, ![t].msg = AbsentDoc])

\* _deduplicate_and_save, lines 245-246
DeduplicateCollection(collection, time, tie) ==
    [collection EXCEPT !.memories = DeduplicateFast(@, tie),
                       !.last_deduplicated_at = time]

\* search_memories, lines 192-198, with the collection object o just loaded
SearchAfterLoad(t, h, c, o, embedOk) ==
    LET tk == tasks[t]
    IN  IF IsEmptyCollection(h[o])
        THEN embedOk /\ Commit(h, c, [tasks EXCEPT ![t] = Returned(tk, <<>>)])
        ELSE IF NeedsDeduplication(h[o], now)
        THEN /\ embedOk
             /\ Commit([h EXCEPT ![o] = DeduplicateCollection(@, now, tieOrder)],
                       c,
                       [tasks EXCEPT ![t].pc = "save_path", ![t].coll = o,
                                     ![t].deduped = TRUE,
                                     ![t].msg = AbsentDoc])
        ELSE Rank(t, h, c, o, embedOk)

\* _load_memories has returned object o to the operation of task t
AfterLoad(t, h, c, o) ==
    \E embedOk \in BOOLEAN :
        /\ embedOk \/ faults < MaxFaults
        /\ faults' = IF embedOk THEN faults ELSE faults + 1
        /\ IF tasks[t].op = "add" THEN AddAfterLoad(t, h, c, o, embedOk)
           ELSE SearchAfterLoad(t, h, c, o, embedOk)

(***************************************************************************)
(* The operations, one action per resumption of a coroutine                *)
(***************************************************************************)
Quiet(t) == tasks[t].pc \in {"idle", "done"}

\* what a load of path p would return when an operation starts; live tells
\* whether it is a cache entry
StartView(p) ==
    [LoadView(heap, cache, storage, p) EXCEPT !.live = cache[p] # NONE]

\* An operation is called.  The coroutines being interchangeable, the first
\* call of a run goes to coroutine 1.
StartOp(t, tk) ==
    /\ Quiet(t)
    /\ t = 1 \/ tasks[1].op # "none"
    /\ started < MaxOps
    /\ started' = started + 1
    /\ tasks' = [tasks EXCEPT ![t] =
           [tk EXCEPT !.seq = started + 1,
                      !.solo = \A u \in Tasks \ {t} : Quiet(u),
                      !.startDoc = storage[MemoryFilePath(tk.key)],
                      !.startView = StartView(MemoryFilePath(tk.key))]]
    /\ UNCHANGED <<now, tieOrder, storage, cache, heap, faults, dd>>

StartAdd(t, key, content, importance) ==
    StartOp(t, [IdleTask EXCEPT !.pc = "load_path", !.op = "add",
                                !.key = key, !.content = content,
                                !.importance = importance])

StartSearch(t, key, query, top_k) ==
    StartOp(t, [IdleTask EXCEPT !.pc = "load_path", !.op = "search",
                                !.key = key, !.query = query,
                                !.top_k = top_k])

StartDelete(t, key) ==
    StartOp(t, [IdleTask EXCEPT !.pc = "delete_path", !.op = "delete",
                                !.key = key])

\* _load_memories, lines 90-94: the path is known and is in the cache
LoadHit(t) ==
    /\ tasks[t].pc = "load_path"
    /\ cache[Path(t)] # NONE
    /\ AfterLoad(t, heap, cache, cache[Path(t)])
    /\ UNCHANGED <<now, tieOrder, storage, started, dd>>

\* _load_memories, lines 90-98: not in the cache, the download is sent
LoadMiss(t) ==
    /\ tasks[t].pc = "load_path"
    /\ cache[Path(t)] = NONE
    /\ tasks' = [tasks EXCEPT ![t].pc = "download"]
    /\ UNCHANGED <<now, tieOrder, storage, cache, heap, started, faults, dd>>

\* get_app_home_path raises: in load, in save or in delete_all_memories
BucketFault(t) ==
    /\ tasks[t].pc \in {"load_path", "save_path", "delete_path"}
    /\ faults < MaxFaults
    /\ faults' = faults + 1
    /\ Commit(heap, cache, [tasks EXCEPT ![t] = Failed(tasks[t], "BucketError")])
    /\ UNCHANGED <<now, tieOrder, storage, started, dd>>

\* the storage answers the download with what it holds
DownloadServe(t) ==
    /\ tasks[t].pc = "download"
    /\ tasks' = [tasks EXCEPT ![t].pc = "downloaded",
                              ![t].msg = IF storage[Path(t)].kind = "json"
                                         THEN storage[Path(t)]
                                         ELSE FailedDoc]
    /\ UNCHANGED <<now, tieOrder, storage, cache, heap, started, faults, dd>>

\* the download of an existing object fails (network, corrupt content)
DownloadFault(t) ==
    /\ tasks[t].pc = "download"
    /\ storage[Path(t)].kind = "json"
    /\ faults < MaxFaults
    /\ faults' = faults + 1
    /\ tasks' = [tasks EXCEPT ![t].pc = "downloaded", ![t].msg = FailedDoc,
                              ![t].caught = "DownloadError"]
    /\ UNCHANGED <<now, tieOrder, storage, cache, heap, started, dd>>

\* _load_memories, lines 99-109, and the caller up to its next await
DownloadResume(t) ==
    /\ tasks[t].pc = "downloaded"
    /\ LET o == NewObj(heap)
       IN  AfterLoad(t, [heap EXCEPT ![o] = ValidateOrEmpty(tasks[t].msg, now)],
                     [cache EXCEPT ![Path(t)] = o], o)
    /\ UNCHANGED <<now, tieOrder, storage, started, dd>>

\* _save_memories, lines 123-132: stamp, serialise, send the upload
SaveBegin(t) ==
    /\ tasks[t].pc = "save_path"
    /\ LET o == tasks[t].coll
           h == [heap EXCEPT ![o].updated_at = now]
       IN  Commit(h, cache, [tasks EXCEPT ![t].pc = "upload",
                                          ![t].msg = DumpJson(h[o])])
    /\ UNCHANGED <<now, tieOrder, storage, started, faults, dd>>

\* variant: an existing object is not overwritten
StoragePut_CreateOnly(st, path, doc) ==
    IF st[path].kind = "json" THEN st ELSE [st EXCEPT ![path] = doc]

\* files.upload: a PUT, the object is created or overwritten
StoragePut(st, path, doc) == [st EXCEPT ![path] = doc]

UploadServe(t) ==
    /\ tasks[t].pc = "upload"
    /\ storage' = StoragePut(storage, Path(t), tasks[t].msg)
    /\ tasks' = [tasks EXCEPT ![t].pc = "uploaded", ![t].msg = AbsentDoc]
    /\ UNCHANGED <<now, tieOrder, cache, heap, started, faults, dd>>

\* files.upload raises; nothing was stored
UploadFault(t) ==
    /\ tasks[t].pc = "upload"
    /\ faults < MaxFaults
    /\ faults' = faults + 1
    /\ Commit(heap, cache, [tasks EXCEPT ![t] = Failed(tasks[t], "UploadError")])
    /\ UNCHANGED <<now, tieOrder, storage, started, dd>>

\* self._cache[file_path] = memories
CachePut(c, path, o) == [c EXCEPT ![path] = o]

\* _save_memories, line 135, and the caller to its end
UploadResume(t) ==
    /\ tasks[t].pc = "uploaded"
    /\ LET o == tasks[t].coll
           c == CachePut(cache, Path(t), o)
       IN  IF tasks[t].op = "add"
           THEN /\ Commit(heap, c, [tasks EXCEPT ![t] = Returned(tasks[t], <<>>)])
                /\ faults' = faults
           ELSE \E embedOk \in BOOLEAN :
                   /\ embedOk \/ faults < MaxFaults
                   /\ faults' = IF embedOk THEN faults ELSE faults + 1
                   /\ Rank(t, heap, c, o, embedOk)
    /\ UNCHANGED <<now, tieOrder, storage, started, dd>>

\* delete_all_memories, lines 322-327: the delete is sent
DeleteBegin(t) ==
    /\ tasks[t].pc = "delete_path"
    /\ tasks' = [tasks EXCEPT ![t].pc = "delete"]
    /\ UNCHANGED <<now, tieOrder, storage, cache, heap, started, faults, dd>>

\* files.delete: the object is gone (if absent the call raises, which
\* delete_all_memories ignores)
DeleteServe(t) ==
    /\ tasks[t].pc = "delete"
    /\ storage' = [storage EXCEPT ![Path(t)] = AbsentDoc]
    /\ tasks' = [tasks EXCEPT ![t].pc = "deleted"]
    /\ UNCHANGED <<now, tieOrder, cache, heap, started, faults, dd>>

\* variant: the exception of files.delete is not caught
DeleteFault_Raises(t) ==
    /\ tasks[t].pc = "delete"
    /\ storage[Path(t)].kind = "json"
    /\ faults < MaxFaults
    /\ faults' = faults + 1
    /\ Commit(heap, cache, [tasks EXCEPT ![t] = Failed(tasks[t], "DeleteError")])
    /\ UNCHANGED <<now, tieOrder, storage, started, dd>>

\* files.delete raises for another reason; the object stays
DeleteFault(t) ==
    /\ tasks[t].pc = "delete"
    /\ storage[Path(t)].kind = "json"
    /\ faults < MaxFaults
    /\ faults' = faults + 1
    /\ tasks' = [tasks EXCEPT ![t].pc = "deleted",
                              ![t].caught = "DeleteError"]
    /\ UNCHANGED <<now, tieOrder, storage, cache, heap, started, dd>>

\* variant: the entry is left in the cache
CacheEvict_Keep(c, path) == c

\* if file_path in self._cache: del self._cache[file_path]
CacheEvict(c, path) == [c EXCEPT ![path] = NONE]

\* delete_all_memories, lines 328-335
DeleteResume(t) ==
    /\ tasks[t].pc = "deleted"
    /\ Commit(heap, CacheEvict(cache, Path(t)),
              [tasks EXCEPT ![t] = Returned(tasks[t], <<>>)])
    /\ UNCHANGED <<now, tieOrder, storage, started, faults, dd>>

\* time passes
Tick ==
    /\ now + TimeStep <= InitNow + MaxTicks * TimeStep
    /\ now' = now + TimeStep
    /\ UNCHANGED <<tieOrder, storage, cache, heap, tasks, started, faults, dd>>

\* time passes between operations
QuietTick == (\A t \in Tasks : Quiet(t)) /\ Tick

(***************************************************************************)
(* One user, two concurrent coroutines                                     *)
(***************************************************************************)
AddContents == {"A", "B"}

AddImportances == {6}

Queries == {"A"}

TopKs == {1, 5}

\* what the user's bucket may hold when the process starts
StoredAtStart(memories, last) ==
    [kind |-> "json", memories |-> memories, updated_at |-> 0,
     last_deduplicated_at |-> last]

\* no object; no record left by a pass long ago; 10 records never
\* deduplicated; 11 records never deduplicated; 11 records deduplicated
\* exactly DEDUP_INTERVAL_HOURS before the start
InitDocs ==
    {AbsentDoc,
     StoredAtStart(<<>>, 0),
     StoredAtStart(<<Memory(0, "A", 6)>> \o Repeat(Memory(0, "C", 6), 8)
                       \o <<Memory(0, "B", 9)>>, NONE),
     StoredAtStart(<<Memory(0, "A", 9)>> \o Repeat(Memory(0, "B", 6), 9)
                       \o <<Memory(0, "C", 9)>>, NONE),
     StoredAtStart(<<Memory(0, "A", 9)>> \o Repeat(Memory(0, "B", 6), 9)
                       \o <<Memory(0, "C", 9)>>,
                   InitNow - DEDUP_INTERVAL_HOURS)}

Init ==
    /\ now = InitNow
    /\ tieOrder \in TieOrders
    /\ \E d \in InitDocs :
           storage = [p \in Paths |->
                         IF p = MemoryFilePath("key1") THEN d ELSE AbsentDoc]
    /\ cache = [p \in Paths |-> NONE]
    /\ heap = [o \in ObjIds |-> FreeObj]
    /\ tasks = [t \in Tasks |-> IdleTask]
    /\ started = 0
    /\ faults = 0
    /\ dd = DdIdle

Next ==
    \/ \E t \in Tasks, c \in AddContents, i \in AddImportances :
           StartAdd(t, "key1", c, i)
    \/ \E t \in Tasks, q \in Queries, k \in TopKs :
           StartSearch(t, "key1", q, k)
    \/ \E t \in Tasks : StartDelete(t, "key1")
    \/ \E t \in Tasks : LoadHit(t)
    \/ \E t \in Tasks : LoadMiss(t)
    \/ \E t \in Tasks : BucketFault(t)
    \/ \E t \in Tasks : DownloadServe(t)
    \/ \E t \in Tasks : DownloadFault(t)
    \/ \E t \in Tasks : DownloadResume(t)
    \/ \E t \in Tasks : SaveBegin(t)
    \/ \E t \in Tasks : UploadServe(t)
    \/ \E t \in Tasks : UploadFault(t)
    \/ \E t \in Tasks : UploadResume(t)
    \/ \E t \in Tasks : DeleteBegin(t)
    \/ \E t \in Tasks : DeleteServe(t)
    \/ \E t \in Tasks : DeleteFault(t)
    \/ \E t \in Tasks : DeleteResume(t)
    \/ QuietTick

Spec == Init /\ [][Next]_vars

(***************************************************************************)
(* Two users, one coroutine or two for each call                           *)
(***************************************************************************)
\* what the bucket of a user may hold when the process starts
UserDocs(api_key) ==
    {AbsentDoc,
     StoredAtStart(<<Memory(0, IF api_key = "key1" THEN "C" ELSE "D", 9)>>,
                   NONE)}

InitUsers ==
    /\ now = InitNow
    /\ tieOrder \in TieOrders
    /\ \E docs \in [ApiKeys -> UNION {UserDocs(k) : k \in ApiKeys}] :
           /\ \A k \in ApiKeys : docs[k] \in UserDocs(k)
           /\ storage = [p \in Paths |->
                            docs[CHOOSE k \in ApiKeys : MemoryFilePath(k) = p]]
    /\ cache = [p \in Paths |-> NONE]
    /\ heap = [o \in ObjIds |-> FreeObj]
    /\ tasks = [t \in Tasks |-> IdleTask]
    /\ started = 0
    /\ faults = 0
    /\ dd = DdIdle

NextUsers ==
    \/ \E t \in Tasks, k \in ApiKeys, c \in AddContents, i \in AddImportances :
           StartAdd(t, k, c, i)
    \/ \E t \in Tasks, k \in ApiKeys, q \in Queries, n \in TopKs :
           StartSearch(t, k, q, n)
    \/ \E t \in Tasks, k \in ApiKeys : StartDelete(t, k)
    \/ \E t \in Tasks : LoadHit(t)
    \/ \E t \in Tasks : LoadMiss(t)
    \/ \E t \in Tasks : BucketFault(t)
    \/ \E t \in Tasks : DownloadServe(t)
    \/ \E t \in Tasks : DownloadFault(t)
    \/ \E t \in Tasks : DownloadResume(t)
    \/ \E t \in Tasks : SaveBegin(t)
    \/ \E t \in Tasks : UploadServe(t)
    \/ \E t \in Tasks : UploadFault(t)
    \/ \E t \in Tasks : UploadResume(t)
    \/ \E t \in Tasks : DeleteBegin(t)
    \/ \E t \in Tasks : DeleteServe(t)
    \/ \E t \in Tasks : DeleteFault(t)
    \/ \E t \in Tasks : DeleteResume(t)

SpecUsers == InitUsers /\ [][NextUsers]_vars

(***************************************************************************)
(* The deduplication pass as a function of its input                       *)
(***************************************************************************)
MemoryPool == {Memory(0, c, imp) : c \in Contents, imp \in Importances}

\* the records of a list numbered by position, so that each is identifiable
Numbered(ms) == [i \in 1..Len(ms) |-> [ms[i] EXCEPT !.id = i]]

SmallInputs == UNION {[1..n -> MemoryPool] : n \in 0..MaxLen}

\* lists of n + 2 records: p, then n copies of m, then q
PaddedInputs(n) ==
    {<<p>> \o Repeat(m, n) \o <<q>> :
        p \in MemoryPool, m \in MemoryPool, q \in MemoryPool}

\* every short list, and lists of exactly DEDUP_NEIGHBORS and of
\* DEDUP_NEIGHBORS + 1 records
DedupInputs ==
    {Numbered(ms) : ms \in SmallInputs
                           \cup PaddedInputs(DEDUP_NEIGHBORS - 2)
                           \cup PaddedInputs(DEDUP_NEIGHBORS - 1)}

InitDedup ==
    /\ tieOrder \in TieOrders
    /\ now = InitNow
    /\ storage = [p \in Paths |-> AbsentDoc]
    /\ cache = [p \in Paths |-> NONE]
    /\ heap = [o \in ObjIds |-> FreeObj]
    /\ tasks = [t \in Tasks |-> IdleTask]
    /\ started = 0
    /\ faults = 0
    /\ \E ms \in DedupInputs : dd = [DdIdle EXCEPT !.input = ms]

FirstPass ==
    /\ dd.stage = 0
    /\ dd' = [dd EXCEPT !.stage = 1,
                        !.removed = ToRemove(dd.input, tieOrder),
                        !.out1 = DeduplicateFast(dd.input, tieOrder)]
    /\ UNCHANGED <<tieOrder, svars>>

SecondPass ==
    /\ dd.stage = 1
    /\ dd' = [dd EXCEPT !.stage = 2,
                        !.out2 = DeduplicateFast(dd.out1, tieOrder)]
    /\ UNCHANGED <<tieOrder, svars>>

NextDedup == FirstPass \/ SecondPass

SpecDedup == InitDedup /\ [][NextDedup]_vars

(***************************************************************************)
(* What an operation observes                                              *)
(***************************************************************************)
\* _load_memories returns to the operation of task t in this step: from the
\* cache (lines 93-94) or after the download (line 109)
LoadReturns(t) ==
    \/ /\ tasks[t].pc = "load_path"
       /\ cache[Path(t)] # NONE
       /\ tasks'[t].pc # "load_path"
       /\ tasks'[t].error # "BucketError"
    \/ /\ tasks[t].pc = "downloaded"
       /\ tasks'[t].pc # "downloaded"

\* the collection that _load_memories returns when LoadReturns(t)
Loaded(t) ==
    IF tasks[t].pc = "load_path" THEN heap[cache[Path(t)]]
    ELSE ValidateOrEmpty(tasks[t].msg, now)

\* search_memories reaches its return statement, or raises on the way from
\* the index construction, in this step of task t
RankReturns(t) ==
    /\ tasks[t].op = "search"
    /\ tasks[t].pc = "uploaded" \/ LoadReturns(t)
    /\ tasks'[t].pc = "done"
    /\ tasks'[t].error \notin {"BucketError", "EncodeError"}

\* the collection that search_memories ranks when RankReturns(t)
Ranked(t) ==
    IF tasks[t].pc = "uploaded" THEN heap[tasks[t].coll] ELSE Loaded(t)

\* no coroutine is inside an operation
AllQuiet == \A t \in Tasks : Quiet(t)

\* the records of a list
Records(memories) == {memories[i] : i \in 1..Len(memories)}

Similar(ms, i, j) ==
    CosAtLeast(ms[i].embedding, ms[j].embedding, SIMILARITY_THRESHOLD)

\* search t is the next operation after add u has returned, and runs alone
NextSearchAfterAdd(t, u) ==
    /\ t # u
    /\ tasks[u].op = "add"
    /\ tasks[u].status = "ok"
    /\ tasks[t].op = "search"
    /\ tasks[t].key = tasks[u].key
    /\ tasks[t].seq = tasks[u].seq + 1
    /\ tasks[u].solo
    /\ tasks[t].solo

\* record i of the list has a similarity below the threshold to every other
\* record of the list
Isolated(ms, i) == \A j \in (1..Len(ms)) \ {i} : ~Similar(ms, i, j)

RECURSIVE SelfMarks(_, _, _, _, _)
\* the records from i on that the pass marks removed at line 304 with
\* j = i: record i is at a position pos >= 1 of its own neighbour list and
\* the inner loop reaches that position, i not being marked before
SelfMarks(memories, k, tie, i, to_remove) ==
    IF i > Len(memories) THEN {}
    ELSE IF i \in to_remove
    THEN SelfMarks(memories, k, tie, i + 1, to_remove)
    ELSE LET embs == Embeddings(memories)
             nbr == IndexSearch(embs, embs[i], k, tie)
             self == \E pos \in 2..k :
                         /\ nbr[pos] = i
                         /\ i \notin ScanNeighbors(memories, nbr, pos - 1, i,
                                                   2, to_remove)
         IN  (IF self THEN {i} ELSE {})
             \cup SelfMarks(memories, k, tie, i + 1,
                            ScanNeighbors(memories, nbr, k, i, 2, to_remove))

\* the records that a pass over the list marks removed by a comparison
\* with themselves
SelfCompared(memories, tie) ==
    IF Len(memories) <= 1 THEN {}
    ELSE SelfMarks(memories, NeighborCount(Len(memories)), tie, 1, {})

\* the positions of list inp from which the records of list out are taken,
\* in the order of out (0: the record is not in inp); the records of inp
\* are distinct
PositionsIn(out, inp) ==
    [p \in 1..Len(out) |->
        IF \E i \in 1..Len(inp) : inp[i] = out[p]
        THEN CHOOSE i \in 1..Len(inp) : inp[i] = out[p]
        ELSE 0]

\* out holds exactly the records of inp at the positions not in to_remove,
\* each once, in the order of inp
IsKeptSubsequence(out, inp, to_remove) ==
    LET pos == PositionsIn(out, inp)
    IN  /\ \A p \in 1..Len(out) : pos[p] # 0
        /\ \A p, q \in 1..Len(out) : p < q => pos[p] < pos[q]
        /\ {pos[p] : p \in 1..Len(out)} = (1..Len(inp)) \ to_remove

(***************************************************************************)
(* Properties                                                              *)
(***************************************************************************)
\* C1: a failing add or search leaves no partial state: when the operation
\* has failed in the embedding computation or in the upload of its save
\* step, and no other operation ran meanwhile, the stored document is the
\* one stored when it started, and the collection a load returns has the
\* records and last_deduplicated_at (and, where it was cached already, the
\* updated_at) it had when the operation started
C1_FailureLeavesNoPartialState ==
    \A t \in Tasks :
        LET tk == tasks[t]
            view == LoadView(heap, cache, storage, Path(t))
        IN  (/\ tk.op \in {"add", "search"}
             /\ tk.pc = "done"
             /\ tk.status = "error"
             /\ tk.error \in {"EncodeError", "UploadError"}
             /\ tk.solo
             /\ tk.seq = started)
            => /\ storage[Path(t)] = tk.startDoc
               /\ view.memories = tk.startView.memories
               /\ view.last_deduplicated_at = tk.startView.last_deduplicated_at
               /\ tk.startView.live => view.updated_at = tk.startView.updated_at

\* C2: saves are not serialized, the last write wins: the storage holds
\* exactly what the upload served last carried, whatever was stored before,
\* and the cache holds the collection of the save that resumed last
C2_LastWriteWins ==
    [][\A t \in Tasks :
          /\ (tasks[t].pc = "upload" /\ tasks'[t].pc = "uploaded")
             => storage'[Path(t)] = tasks[t].msg
          /\ (tasks[t].pc = "uploaded" /\ tasks'[t].pc # "uploaded")
             => cache'[Path(t)] = tasks[t].coll]_vars

\* two adds of one user have both returned successfully, nothing failed and
\* nothing else ran, and the record of one of them is neither in the stored
\* document nor in the cached collection, which are those of the other
C2_LostUpdate ==
    \E t, u \in Tasks :
        /\ t # u
        /\ tasks[t].op = "add" /\ tasks[u].op = "add"
        /\ tasks[t].status = "ok" /\ tasks[u].status = "ok"
        /\ tasks[t].key = tasks[u].key
        /\ faults = 0
        /\ started = 2
        /\ storage[Path(t)].kind = "json"
        /\ tasks[t].memory \notin Records(storage[Path(t)].memories)
        /\ tasks[u].memory \in Records(storage[Path(t)].memories)
        /\ cache[Path(t)] # NONE
        /\ heap[cache[Path(t)]].memories = storage[Path(t)].memories

\* C3 (as stated): a second pass removes nothing, whatever the size
C3_IdempotentAnySize == dd.stage = 2 => dd.out2 = dd.out1

\* C3 (amended): a second pass removes nothing from the output of a pass
\* over a list of at most 10 records
C3_IdempotentUpToFanout ==
    (dd.stage = 2 /\ Len(dd.input) <= 10) => dd.out2 = dd.out1

\* a list of 10 records from which the first pass removed some and left
\* more than one, and the second pass removed none
C3_Witness ==
    /\ dd.stage = 2
    /\ Len(dd.input) = 10
    /\ Len(dd.out1) \in 2..9
    /\ dd.out2 = dd.out1

\* C4: of two records with similarity >= 0.75, the one with the strictly
\* higher importance is never removed
C4_HigherImportanceKept ==
    dd.stage >= 1 =>
        \A i, j \in 1..Len(dd.input) :
            (/\ i # j
             /\ Similar(dd.input, i, j)
             /\ dd.input[i].importance > dd.input[j].importance)
            => i \notin dd.removed

\* C5: of two records with equal importance and similarity >= 0.75, the
\* earlier survives and the later is removed
C5_EarlierOfEqualsKept ==
    dd.stage >= 1 =>
        \A i, j \in 1..Len(dd.input) :
            (/\ i < j
             /\ Similar(dd.input, i, j)
             /\ dd.input[i].importance = dd.input[j].importance)
            => (i \notin dd.removed /\ j \in dd.removed)

\* C6: a search runs the deduplication pass exactly when the loaded
\* collection has more than 10 records and last_deduplicated_at is unset or
\* more than 24 hours in the past; it then sets last_deduplicated_at to the
\* current time and goes to save the result, and it computes its results
\* only after that save
C6_DedupTrigger ==
    [][\A t \in Tasks :
          LET due == /\ Len(Loaded(t).memories) > 10
                     /\ \/ Loaded(t).last_deduplicated_at = NONE
                        \/ now - Loaded(t).last_deduplicated_at > 24
          IN  /\ (tasks[t].op = "search" /\ LoadReturns(t))
                 => /\ tasks'[t].deduped <=> due
                    /\ due =>
                         /\ tasks'[t].pc = "save_path"
                         /\ tasks'[t].status = "none"
                         /\ heap'[tasks'[t].coll].memories =
                                DeduplicateFast(Loaded(t).memories, tieOrder)
                         /\ heap'[tasks'[t].coll].last_deduplicated_at = now
                    /\ ~due => tasks'[t].pc = "done"
              /\ (/\ tasks[t].op = "search"
                  /\ tasks[t].deduped
                  /\ tasks[t].pc # "done"
                  /\ tasks'[t].status = "ok")
                 => tasks[t].pc = "uploaded"]_vars

\* a search of 11 records never deduplicated has run the pass, has stamped
\* the collection with the current time and is about to save it
C6_Witness ==
    \E t \in Tasks :
        /\ tasks[t].op = "search"
        /\ tasks[t].pc = "save_path"
        /\ tasks[t].deduped
        /\ Len(tasks[t].startView.memories) = 11
        /\ tasks[t].startView.last_deduplicated_at = NONE
        /\ heap[tasks[t].coll].last_deduplicated_at = now
        /\ Len(heap[tasks[t].coll].memories) < 11

\* C7: a search with top_k >= 1 whose query is embedded returns exactly
\* min(top_k, N) records, N the size of the collection after the
\* deduplication triggered by that search, by non-increasing similarity to
\* the query
C7_TopK ==
    [][\A t \in Tasks :
          RankReturns(t) =>
              LET res == tasks'[t].result
                  q == Embed(tasks[t].query)
              IN  /\ tasks'[t].status = "ok"
                  /\ Len(res) = Min(tasks[t].top_k, Len(Ranked(t).memories))
                  /\ \A a, b \in 1..Len(res) :
                         a < b => ~CosGreater(q, Embed(res[b].content),
                                              Embed(res[a].content))]_vars

\* C8: a search that loads an empty collection returns the empty sequence
\* without error, without deduplication and without upload, whatever
\* last_deduplicated_at is
C8_EmptySearch ==
    [][\A t \in Tasks :
          (/\ tasks[t].op = "search"
           /\ LoadReturns(t)
           /\ Loaded(t).memories = <<>>)
          => /\ tasks'[t].pc = "done"
             /\ tasks'[t].status = "ok"
             /\ tasks'[t].result = <<>>
             /\ ~tasks'[t].deduped
             /\ storage' = storage
             /\ LoadView(heap', cache', storage', Path(t)).memories = <<>>
             /\ LoadView(heap', cache', storage', Path(t)).last_deduplicated_at
                    = Loaded(t).last_deduplicated_at]_vars

\* a search of an empty collection last deduplicated more than 24 hours
\* ago has returned the empty sequence and the stored document is untouched
C8_Witness ==
    \E t \in Tasks :
        /\ tasks[t].op = "search"
        /\ tasks[t].status = "ok"
        /\ tasks[t].result = <<>>
        /\ ~tasks[t].deduped
        /\ started = 1
        /\ storage[Path(t)] = StoredAtStart(<<>>, 0)
        /\ cache[Path(t)] # NONE
        /\ heap[cache[Path(t)]].memories = <<>>
        /\ heap[cache[Path(t)]].last_deduplicated_at # NONE
        /\ now - heap[cache[Path(t)]].last_deduplicated_at > 24

\* C9: over adds and searches of one user none of which deduplicated, every
\* record successfully added is in the collection that the next operation
\* loads
C9_AddedRecordsStay ==
    (/\ AllQuiet
     /\ \A u \in Tasks : tasks[u].op # "delete" /\ ~tasks[u].deduped
     /\ started = Cardinality({u \in Tasks : tasks[u].op # "none"}))
    => \A t \in Tasks :
           (tasks[t].op = "add" /\ tasks[t].status = "ok")
           => tasks[t].memory \in
                  Records(LoadView(heap, cache, storage, Path(t)).memories)

\* C10: once deleteAll has returned its confirmation and nothing ran since,
\* the user's document is not in the storage and the cache has no entry for
\* the user
C10_DeleteAllRemoves ==
    \A t \in Tasks :
        (/\ tasks[t].op = "delete"
         /\ tasks[t].status = "ok"
         /\ tasks[t].seq = started
         /\ AllQuiet)
        => /\ storage[Path(t)].kind = "absent"
           /\ cache[Path(t)] = NONE

\* C11: a transient failure of the embedding provider or of the storage
\* backend during an add or a search is not absorbed: an operation in which
\* such a failure occurred ends in failure
C11_FailuresPropagate ==
    \A t \in Tasks :
        (/\ tasks[t].op \in {"add", "search"}
         /\ tasks[t].pc = "done"
         /\ tasks[t].caught # "none")
        => tasks[t].status = "error"

\* C12: a download that yields no document (missing object, failed or
\* unreadable content) is never surfaced as an error: the load returns and
\* caches a fresh empty collection with last_deduplicated_at unset, a search
\* returns the empty sequence, and an add goes on with the new record as
\* the only one
C12_ReadFailureIsEmpty ==
    [][\A t \in Tasks :
          (/\ tasks[t].pc = "downloaded"
           /\ tasks[t].msg.kind # "json"
           /\ tasks'[t].pc # "downloaded")
          => /\ tasks'[t].error \in {"none", "EncodeError"}
             /\ cache'[Path(t)] # NONE
             /\ heap'[cache'[Path(t)]].last_deduplicated_at = NONE
             /\ heap'[cache'[Path(t)]].memories =
                    IF tasks'[t].pc = "save_path"
                    THEN <<tasks'[t].memory>> ELSE <<>>
             /\ tasks[t].op = "search"
                => /\ tasks'[t].status = "ok"
                   /\ tasks'[t].result = <<>>
             /\ tasks[t].op = "add"
                => \/ tasks'[t].pc = "save_path"
                   \/ tasks'[t].error = "EncodeError"]_vars

\* a search whose download of a stored, non-empty collection failed has
\* returned the empty sequence, and the cache holds an empty collection
C12_Witness ==
    \E t \in Tasks :
        /\ tasks[t].op = "search"
        /\ tasks[t].status = "ok"
        /\ tasks[t].result = <<>>
        /\ tasks[t].caught = "DownloadError"
        /\ storage[Path(t)].kind = "json"
        /\ storage[Path(t)].memories # <<>>
        /\ cache[Path(t)] # NONE
        /\ heap[cache[Path(t)]].memories = <<>>
        /\ heap[cache[Path(t)]].last_deduplicated_at = NONE

\* C13: a load sends a download only when the cache has no entry for the
\* path, and on a hit it returns the cached object and reads no storage;
\* after a load by download and after a save the cache entry is the
\* collection object just loaded or saved; a delete evicts the entry
C13_CachePolicy ==
    [][\A t \in Tasks :
          LET p == Path(t)
          IN  /\ (tasks[t].pc # "download" /\ tasks'[t].pc = "download")
                 => cache[p] = NONE
              /\ (/\ tasks[t].pc = "load_path"
                  /\ cache[p] # NONE
                  /\ tasks'[t] # tasks[t])
                 => /\ tasks'[t].pc \notin {"download", "downloaded"}
                    /\ tasks'[t].msg = AbsentDoc
                    /\ cache'[p] = cache[p]
                    /\ tasks'[t].coll # NONE => tasks'[t].coll = cache[p]
              /\ (tasks[t].pc = "downloaded" /\ tasks'[t].pc # "downloaded")
                 => /\ cache'[p] # NONE
                    /\ tasks'[t].coll # NONE => tasks'[t].coll = cache'[p]
                    /\ (tasks[t].op = "search" /\ ~tasks'[t].deduped)
                       => heap'[cache'[p]] = ValidateOrEmpty(tasks[t].msg, now)
              /\ (tasks[t].pc = "uploaded" /\ tasks'[t].pc # "uploaded")
                 => /\ cache'[p] # NONE
                    /\ heap'[cache'[p]] = heap[tasks[t].coll]
              /\ (tasks[t].pc = "deleted" /\ tasks'[t].pc # "deleted")
                 => cache'[p] = NONE]_vars

\* after an add that loaded by download and saved, a second add running
\* alone has loaded the cached object, which holds both records while the
\* storage holds the first only
C13_Witness ==
    \E t, u \in Tasks :
        /\ tasks[u].op = "add" /\ tasks[u].status = "ok" /\ tasks[u].seq = 1
        /\ tasks[t].op = "add" /\ tasks[t].pc = "save_path"
        /\ tasks[t].seq = 2 /\ tasks[t].solo
        /\ tasks[t].coll = cache[Path(t)]
        /\ heap[tasks[t].coll].memories = <<tasks[u].memory, tasks[t].memory>>
        /\ storage[Path(t)].kind = "json"
        /\ storage[Path(t)].memories = <<tasks[u].memory>>

C15_Isolation ==
    [][\A t \in Tasks :
          tasks'[t] # tasks[t] =>
              \A k \in ApiKeys \ {tasks'[t].key} :
                  LET q == MemoryFilePath(k)
                  IN  /\ storage'[q] = storage[q]
                      /\ cache'[q] = cache[q]
                      /\ cache[q] # NONE => heap'[cache[q]] = heap[cache[q]]
                      /\ tasks'[t].coll # NONE => tasks'[t].coll # cache'[q]
                      /\ (tasks[t].pc = "download"
                          /\ tasks'[t].msg.kind = "json")
                         => tasks'[t].msg
                                = storage[MemoryFilePath(tasks'[t].key)]]_vars

\* two users have each added a record concurrently: each stored and cached
\* collection ends with its user's record and has not the other's
C15_Witness ==
    \E t, u \in Tasks :
        LET pt == MemoryFilePath("key1")
            pu == MemoryFilePath("key2")
        IN  /\ tasks[t].key = "key1" /\ tasks[u].key = "key2"
            /\ tasks[t].op = "add" /\ tasks[u].op = "add"
            /\ tasks[t].status = "ok" /\ tasks[u].status = "ok"
            /\ tasks[t].content # tasks[u].content
            /\ ~tasks[t].solo \/ ~tasks[u].solo
            /\ storage[pt].kind = "json" /\ storage[pu].kind = "json"
            /\ tasks[t].memory \in Records(storage[pt].memories)
            /\ tasks[u].memory \notin Records(storage[pt].memories)
            /\ tasks[u].memory \in Records(storage[pu].memories)
            /\ tasks[t].memory \notin Records(storage[pu].memories)
            /\ cache[pt] # NONE /\ cache[pu] # NONE /\ cache[pt] # cache[pu]
            /\ heap[cache[pt]].memories = storage[pt].memories
            /\ heap[cache[pu]].memories = storage[pu].memories

\* C16: the upload of an add that runs alone stores the previously stored
\* collection plus the new record at the end, with last_deduplicated_at
\* unchanged, and the add has run no deduplication
C16_AddAppendsOne ==
    [][\A t \in Tasks :
          (/\ tasks[t].op = "add"
           /\ tasks[t].solo
           /\ tasks[t].seq = started
           /\ tasks[t].pc = "upload"
           /\ tasks'[t].pc = "uploaded")
          => /\ storage'[Path(t)].kind = "json"
             /\ storage'[Path(t)].memories =
                    Append(storage[Path(t)].memories, tasks[t].memory)
             /\ storage'[Path(t)].last_deduplicated_at =
                    storage[Path(t)].last_deduplicated_at
             /\ ~tasks'[t].deduped]_vars

\* C17: once the delete call is sent, deleteAll does not fail, whether the
\* storage deletes the object, has no object or fails: it returns the
\* confirmation with the cache entry evicted, a failed delete call leaves
\* the storage as it is, and a deleteAll on a user with no stored object and
\* no cache entry (as a deleteAll leaves them) changes neither
C17_DeleteNeverFails ==
    [][\A t \in Tasks :
          LET p == Path(t)
          IN  /\ (tasks[t].pc \in {"delete", "deleted"} /\ tasks'[t] # tasks[t])
                 => /\ tasks'[t].status # "error"
                    /\ tasks'[t].pc \in {"deleted", "done"}
                    /\ tasks'[t].caught = "DeleteError" => storage' = storage
                    /\ tasks'[t].pc = "done"
                       => /\ tasks'[t].status = "ok"
                          /\ cache'[p] = NONE
              /\ (/\ tasks[t].op = "delete"
                  /\ tasks[t].pc # "done"
                  /\ tasks'[t] # tasks[t]
                  /\ storage[p].kind = "absent"
                  /\ cache[p] = NONE)
                 => /\ storage' = storage
                    /\ cache' = cache
                    /\ heap' = heap]_vars

\* a second deleteAll, called after the first returned its confirmation,
\* has found no stored object and is about to return; nothing is stored or
\* cached
C17_Witness ==
    \E t, u \in Tasks :
        /\ tasks[u].op = "delete" /\ tasks[u].status = "ok"
        /\ tasks[u].seq = 1
        /\ tasks[t].op = "delete" /\ tasks[t].pc = "deleted"
        /\ tasks[t].seq = 2 /\ tasks[t].solo
        /\ tasks[t].startDoc.kind = "absent"
        /\ faults = 0
        /\ storage[Path(t)].kind = "absent"
        /\ cache[Path(t)] = NONE

\* C18: from a collection of exactly two records with similarity >= 0.75
\* and different importance the pass leaves exactly the record of higher
\* importance, whichever comes first
C18_TwoRecordsKeepHigher ==
    (/\ dd.stage >= 1
     /\ Len(dd.input) = 2
     /\ Similar(dd.input, 1, 2)
     /\ dd.input[1].importance # dd.input[2].importance)
    => dd.out1 = <<IF dd.input[1].importance > dd.input[2].importance
                   THEN dd.input[1] ELSE dd.input[2]>>

C20_NoSelfComparison ==
    dd.stage >= 1 => SelfCompared(dd.input, tieOrder) = {}

\* C21: the deduplication pass returns exactly the records of its input
\* that it did not mark removed, each once and in their order in the input,
\* so that no record is added; it leaves its input list as it was, and it
\* leaves storage, cache, collection objects and clock untouched.  Checked
\* for the pass on a given list and for the pass on its own output.
C21_PassIsPureSubsequence ==
    [][/\ (dd.stage = 0 /\ dd'.stage = 1)
          => /\ IsKeptSubsequence(dd'.out1, dd.input, dd'.removed)
             /\ dd'.removed \subseteq 1..Len(dd.input)
             /\ Len(dd'.out1) + Cardinality(dd'.removed) = Len(dd.input)
             /\ dd'.input = dd.input
             /\ UNCHANGED svars
       /\ (dd.stage = 1 /\ dd'.stage = 2)
          => /\ IsKeptSubsequence(dd'.out2, dd.out1,
                                  ToRemove(dd.out1, tieOrder))
             /\ dd'.out1 = dd.out1
             /\ dd'.input = dd.input
             /\ UNCHANGED svars]_vars

\* a pass over three records has removed the middle one and returned the
\* first and the last, in that order
C21_Witness ==
    /\ dd.stage >= 1
    /\ Len(dd.input) = 3
    /\ dd.removed = {2}
    /\ dd.out1 = <<dd.input[1], dd.input[3]>>

\* C22: a pass never loses a whole group: for every record it removes, a
\* record of greater or equal importance is in its output, and the output
\* of a pass over a non-empty list is non-empty
C22_GroupSurvives ==
    dd.stage >= 1 =>
        /\ \A r \in dd.removed :
               \E s \in (1..Len(dd.input)) \ dd.removed :
                   dd.input[s].importance >= dd.input[r].importance
        /\ dd.input # <<>> => dd.out1 # <<>>

\* C23: a record whose similarity to every other record of the collection
\* is strictly below 0.75 is not removed by a pass, whatever its importance
\* and position; nor by a second pass over the output of the first
C23_IsolatedRecordStays ==
    /\ dd.stage >= 1
       => \A i \in 1..Len(dd.input) :
              Isolated(dd.input, i)
              => /\ i \notin dd.removed
                 /\ dd.input[i] \in Records(dd.out1)
    /\ dd.stage = 2
       => \A i \in 1..Len(dd.out1) :
              Isolated(dd.out1, i) => dd.out1[i] \in Records(dd.out2)

\* a pass over three records, the last one similar to no other and of the
\* lowest importance, has removed the second record and kept the last
C23_Witness ==
    /\ dd.stage >= 1
    /\ Len(dd.input) = 3
    /\ Isolated(dd.input, 3)
    /\ dd.input[3].importance < dd.input[1].importance
    /\ dd.input[3].importance < dd.input[2].importance
    /\ dd.removed = {2}
    /\ dd.out1 = <<dd.input[1], dd.input[3]>>

\* C24: whenever no operation of a user is in progress and the cache has
\* an entry for the user's path, the cached collection has the records and
\* the last_deduplicated_at of the stored object of that path, an absent
\* object counting as the empty collection; also after failed operations
C24_CacheCoherentAtQuiescence ==
    \A k \in ApiKeys :
        LET p == MemoryFilePath(k)
        IN  (/\ \A t \in Tasks : Quiet(t) \/ tasks[t].key # k
             /\ cache[p] # NONE)
            => /\ heap[cache[p]].memories = storage[p].memories
               /\ heap[cache[p]].last_deduplicated_at
                      = storage[p].last_deduplicated_at

\* C25: a search that does not run the deduplication pass is read-only:
\* none of its steps uploads or changes the stored object, and when the
\* cache has an entry for the user's path none of its steps removes the
\* entry or changes the cached collection (records and their order,
\* updated_at, last_deduplicated_at)
C25_SearchReadOnly ==
    [][\A t \in Tasks :
          (/\ tasks[t].op = "search"
           /\ ~Quiet(t)
           /\ tasks'[t] # tasks[t]
           /\ ~tasks'[t].deduped)
          => /\ storage' = storage
             /\ tasks'[t].pc \notin {"save_path", "upload", "uploaded"}
             /\ cache[Path(t)] # NONE
                => /\ cache'[Path(t)] # NONE
                   /\ heap'[cache'[Path(t)]] = heap[cache[Path(t)]]]_vars

=============================================================================
